---- MODULE Spec2Model ----
(***************************************************************************)
(* Model of NodeConfig::build_indexer_config (src/config/mod.rs): the      *)
(* resolution of the declarative node settings into the indexer's runtime  *)
(* configuration.  A run goes through the stages of the function body in   *)
(* order: public address, temp keys, DB folder, construction of the        *)
(* result.  The filesystem (key files, directories) is shared by all runs. *)
(***************************************************************************)
EXTENDS Integers, Sequences, FiniteSets, TLC

\* ------------------------------------------------------------------ bounds
NumIps == 1
NumKeys == 2
MaxSeqno == 1

\* ------------------------------------------------------- option encoding
None == << >>
Some(x) == <<x>>
Unwrap(o) == o[1]
Option(S) == {None} \cup {Some(x) : x \in S}

\* ------------------------------------------------------------ input sets
Procs == {1, 2}
SeqProcs == {1}

Ips == 1..NumIps
Keys == 1..NumKeys
Seqnos == 0..MaxSeqno

DefaultAdnlPort == 30303
DefaultParallelArchiveDownloads == 16
DefaultMaxDbMemoryUsage == 1

AdnlPorts == {DefaultAdnlPort, DefaultAdnlPort + 1}
MemoryLimits == {DefaultMaxDbMemoryUsage, DefaultMaxDbMemoryUsage + 1}
ArchiveDownloads == {DefaultParallelArchiveDownloads, 1}

DefaultDbPath == <<"db">>
DefaultTempKeysPath == <<"adnl-keys.json">>
DbPaths == {DefaultDbPath, <<"db", "node">>}
KeyPaths == {DefaultTempKeysPath, <<"keys.json">>}

\* struct NodeConfig
NodeConfig ==
    [adnl_public_ip : Option(Ips),
     adnl_port : AdnlPorts,
     db_path : DbPaths,
     temp_keys_path : KeyPaths,
     max_db_memory_usage : MemoryLimits,
     parallel_archive_downloads : ArchiveDownloads,
     start_from : Option(Seqnos)]

\* impl Default for NodeConfig
DefaultNodeConfig ==
    [adnl_public_ip |-> None,
     adnl_port |-> DefaultAdnlPort,
     db_path |-> DefaultDbPath,
     temp_keys_path |-> DefaultTempKeysPath,
     max_db_memory_usage |-> DefaultMaxDbMemoryUsage,
     parallel_archive_downloads |-> DefaultParallelArchiveDownloads,
     start_from |-> None]

\* The settings two racing runs are started with: the defaults, with either
\* way of getting the address and either key path.
ConcConfigs ==
    {[DefaultNodeConfig EXCEPT !.adnl_public_ip = a, !.temp_keys_path = k] :
        a \in Option(Ips), k \in KeyPaths}

\* ------------------------------------------------------------ filesystem
Missing == [tag |-> "Missing"]
Corrupt == [tag |-> "Corrupt"]
KeyFile(k) == [tag |-> "Keys", keys |-> k]
FileContents == {Missing, Corrupt} \cup {KeyFile(k) : k \in Keys}

\* std::fs::create_dir_all: the directory and all of its parents.
Ancestors(path) == {SubSeq(path, 1, n) : n \in 1..Len(path)}
\* What a failed create_dir_all may leave behind: the first n parents.
PartialAncestors(path) ==
    {{SubSeq(path, 1, m) : m \in 1..n} : n \in 0..(Len(path) - 1)}

AllDirs == UNION {Ancestors(d) : d \in DbPaths}
DirStates == {D \in SUBSET AllDirs : \A d \in D : Ancestors(d) \subseteq D}

\* A join that keeps the segment alone, as Path::join does with an absolute
\* argument.
JoinDropsBase(path, segment) == <<segment>>

\* Path::join with a relative segment.
Join(path, segment) == Append(path, segment)

\* ------------------------------------------------------------------ state
VARIABLES
    keyFiles,     \* temp_keys_path -> content of the file there
    dirs,         \* the directories that exist
    firstKeys,    \* temp_keys_path -> keys of the run that created the file
    pc,           \* run -> stage of build_indexer_config
    cfg,          \* run -> self
    ip_address,   \* run -> Option of the resolved address
    temp_keys,    \* run -> Option of the loaded keys
    result,       \* run -> Pending, Ok(config) or Err(error)
    resolved,     \* run -> what public_ip::addr_v4 answered, if asked
    failedAt,     \* run -> the stage whose `?` returned the error
    lookups,      \* run -> calls of public_ip::addr_v4
    loads,        \* run -> calls of TempKeys::load
    mkdirs,       \* run -> calls of create_dir_all
    keyFiles0,    \* run -> keyFiles when the run started
    dirs0         \* run -> dirs when the run started

fsVars == <<keyFiles, dirs, firstKeys>>
vars == <<keyFiles, dirs, firstKeys, pc, cfg, ip_address, temp_keys, result,
          resolved, failedAt, lookups, loads, mkdirs, keyFiles0, dirs0>>

Pending == [tag |-> "Pending"]
Ok(v) == [tag |-> "Ok", value |-> v]
Err(e) == [tag |-> "Err", error |-> e]

NotAsked == [tag |-> "NotAsked"]
Answered(r) == [tag |-> "Answered", addr |-> r]

\* ----------------------------------------------------------------- errors
\* An anyhow::Error: the cause, and the context attached on the way up.
\* ConfigError::PublicIpNotFound, raised by ok_or(..)?.
PublicIpNotFound == [context |-> None, cause |-> "ConfigError::PublicIpNotFound"]
\* The key store's error passed up with a bare `?`.
LoadContextDropped(cause) == [context |-> None, cause |-> cause]

\* .context("Failed to load temp keys")? around the key store's error.
LoadContext(cause) == [context |-> Some("Failed to load temp keys"), cause |-> cause]
\* create_dir_all(..)?: the io::Error goes up as it is.
DirError(cause) == [context |-> None, cause |-> cause]

\* ------------------------------------------------------- pure derivations
\* The resolver asked whatever the settings say.
NeedsLookupAlways(c) == TRUE

\* match self.adnl_public_ip: None asks the resolver.
NeedsLookup(c) == c.adnl_public_ip = None

\* Keys regenerated on every load.
ForceRegenerateAlways == TRUE

\* The second argument of TempKeys::load.
ForceRegenerate == FALSE

\* Sync chosen, the seqno lost.
OldBlocksPolicyDropsSeqno(start_from) ==
    IF start_from = None
    THEN [tag |-> "Ignore"]
    ELSE [tag |-> "Sync", from_seqno |-> 0]

\* match self.start_from
OldBlocksPolicy(start_from) ==
    IF start_from = None
    THEN [tag |-> "Ignore"]
    ELSE [tag |-> "Sync", from_seqno |-> Unwrap(start_from)]

\* temp_keys.into()
AdnlKeys(k) == [adnl_keys |-> k]

\* The result with state GC switched on.
BuildOutputGcEnabled(c, ip, keys) ==
    [ip_address |-> [ip |-> ip, port |-> c.adnl_port],
     adnl_keys |-> AdnlKeys(keys),
     rocks_db_path |-> Join(c.db_path, "rocksdb"),
     file_db_path |-> Join(c.db_path, "files"),
     state_gc_options |-> Some("default"),
     blocks_gc_options |-> None,
     shard_state_cache_options |-> Some("default"),
     archives_enabled |-> FALSE,
     old_blocks_policy |-> OldBlocksPolicy(c.start_from),
     max_db_memory_usage |-> c.max_db_memory_usage,
     parallel_archive_downloads |-> c.parallel_archive_downloads]

\* Ok(ton_indexer::NodeConfig { .. })
BuildOutput(c, ip, keys) ==
    [ip_address |-> [ip |-> ip, port |-> c.adnl_port],
     adnl_keys |-> AdnlKeys(keys),
     rocks_db_path |-> Join(c.db_path, "rocksdb"),
     file_db_path |-> Join(c.db_path, "files"),
     state_gc_options |-> None,
     blocks_gc_options |-> None,
     shard_state_cache_options |-> Some("default"),
     archives_enabled |-> FALSE,
     old_blocks_policy |-> OldBlocksPolicy(c.start_from),
     max_db_memory_usage |-> c.max_db_memory_usage,
     parallel_archive_downloads |-> c.parallel_archive_downloads]

\* The DB folder prepared before the keys are loaded.
NextStageDbFirst(stage) ==
    CASE stage = "resolve" -> "mkdir"
      [] stage = "mkdir" -> "load"
      [] stage = "load" -> "build"

\* The order of the statements of the function body.
NextStage(stage) ==
    CASE stage = "resolve" -> "load"
      [] stage = "load" -> "mkdir"
      [] stage = "mkdir" -> "build"

\* ---------------------------------------------------------------- actions
TypeOK ==
    /\ keyFiles \in [KeyPaths -> FileContents]
    /\ dirs \in DirStates
    /\ firstKeys \in [KeyPaths -> Option(Keys)]
    /\ pc \in [Procs -> {"idle", "resolve", "load", "generate", "mkdir",
                         "build", "done", "failed"}]
    /\ cfg \in [Procs -> NodeConfig]
    /\ ip_address \in [Procs -> Option(Ips)]
    /\ temp_keys \in [Procs -> Option(Keys)]
    /\ lookups \in [Procs -> Nat]
    /\ loads \in [Procs -> Nat]
    /\ mkdirs \in [Procs -> Nat]

Init ==
    /\ keyFiles \in [KeyPaths -> FileContents]
    /\ dirs \in DirStates
    /\ firstKeys = [k \in KeyPaths |-> None]
    /\ pc = [p \in Procs |-> "idle"]
    /\ cfg = [p \in Procs |-> DefaultNodeConfig]
    /\ ip_address = [p \in Procs |-> None]
    /\ temp_keys = [p \in Procs |-> None]
    /\ result = [p \in Procs |-> Pending]
    /\ resolved = [p \in Procs |-> NotAsked]
    /\ failedAt = [p \in Procs |-> "none"]
    /\ lookups = [p \in Procs |-> 0]
    /\ loads = [p \in Procs |-> 0]
    /\ mkdirs = [p \in Procs |-> 0]
    /\ keyFiles0 = [p \in Procs |-> keyFiles]
    /\ dirs0 = [p \in Procs |-> dirs]

\* The call build_indexer_config(self) with self = c.
Begin(p, c) ==
    /\ pc' = [pc EXCEPT ![p] = "resolve"]
    /\ cfg' = [cfg EXCEPT ![p] = c]
    /\ ip_address' = [ip_address EXCEPT ![p] = None]
    /\ temp_keys' = [temp_keys EXCEPT ![p] = None]
    /\ result' = [result EXCEPT ![p] = Pending]
    /\ resolved' = [resolved EXCEPT ![p] = NotAsked]
    /\ failedAt' = [failedAt EXCEPT ![p] = "none"]
    /\ lookups' = [lookups EXCEPT ![p] = 0]
    /\ loads' = [loads EXCEPT ![p] = 0]
    /\ mkdirs' = [mkdirs EXCEPT ![p] = 0]
    /\ keyFiles0' = [keyFiles0 EXCEPT ![p] = keyFiles]
    /\ dirs0' = [dirs0 EXCEPT ![p] = dirs]
    /\ UNCHANGED fsVars

\* One resolution after another: a start of the process.
StartSeq(p) ==
    /\ pc[p] = "idle"
    /\ \E c \in NodeConfig : Begin(p, c)

\* The process ends after the result was returned; what it wrote to the
\* filesystem stays.
Exit(p) ==
    /\ pc[p] \in {"done", "failed"}
    /\ pc' = [pc EXCEPT ![p] = "idle"]
    /\ cfg' = [cfg EXCEPT ![p] = DefaultNodeConfig]
    /\ ip_address' = [ip_address EXCEPT ![p] = None]
    /\ temp_keys' = [temp_keys EXCEPT ![p] = None]
    /\ result' = [result EXCEPT ![p] = Pending]
    /\ resolved' = [resolved EXCEPT ![p] = NotAsked]
    /\ failedAt' = [failedAt EXCEPT ![p] = "none"]
    /\ lookups' = [lookups EXCEPT ![p] = 0]
    /\ loads' = [loads EXCEPT ![p] = 0]
    /\ mkdirs' = [mkdirs EXCEPT ![p] = 0]
    /\ keyFiles0' = [keyFiles0 EXCEPT ![p] = keyFiles]
    /\ dirs0' = [dirs0 EXCEPT ![p] = dirs]
    /\ UNCHANGED fsVars

\* Two resolutions at once: each is started once.
StartConc(p) ==
    /\ pc[p] = "idle"
    /\ \E c \in ConcConfigs : Begin(p, c)

\* `?` on an Err: the function returns it.
Fail(p, stage, error) ==
    /\ pc' = [pc EXCEPT ![p] = "failed"]
    /\ result' = [result EXCEPT ![p] = Err(error)]
    /\ failedAt' = [failedAt EXCEPT ![p] = stage]

\* No address from the resolver, and a fixed one used in its place.
AddressAbsentFallback(p) ==
    /\ ip_address' = [ip_address EXCEPT ![p] = Some(1)]
    /\ pc' = [pc EXCEPT ![p] = NextStage("resolve")]
    /\ UNCHANGED <<result, failedAt>>

\* No address from the resolver, and the resolver asked again.
AddressAbsentRetry(p) ==
    UNCHANGED <<pc, ip_address, result, failedAt>>

\* .ok_or(ConfigError::PublicIpNotFound)? on no address.
AddressAbsent(p) ==
    /\ Fail(p, "address", PublicIpNotFound)
    /\ UNCHANGED ip_address

\* Determine public ip.
ResolveAddress(p) ==
    /\ pc[p] = "resolve"
    /\ IF NeedsLookup(cfg[p])
       THEN \E r \in Option(Ips) :
              /\ lookups' = [lookups EXCEPT ![p] = @ + 1]
              /\ resolved' = [resolved EXCEPT ![p] = Answered(r)]
              /\ IF r = None
                 THEN AddressAbsent(p)
                 ELSE /\ ip_address' = [ip_address EXCEPT ![p] = r]
                      /\ pc' = [pc EXCEPT ![p] = NextStage("resolve")]
                      /\ UNCHANGED <<result, failedAt>>
       ELSE /\ ip_address' = [ip_address EXCEPT ![p] = cfg[p].adnl_public_ip]
            /\ pc' = [pc EXCEPT ![p] = NextStage("resolve")]
            /\ UNCHANGED <<lookups, resolved, result, failedAt>>
    /\ UNCHANGED <<fsVars, cfg, temp_keys, loads, mkdirs, keyFiles0, dirs0>>

\* TempKeys::load(path, force): the path is looked at; an existing file is
\* parsed unless force is set, a missing one is to be generated.
TempKeysLoad(p) ==
    /\ pc[p] = "load"
    /\ loads' = [loads EXCEPT ![p] = @ + 1]
    /\ LET file == keyFiles[cfg[p].temp_keys_path]
       IN  IF file = Missing \/ ForceRegenerate
           THEN /\ pc' = [pc EXCEPT ![p] = "generate"]
                /\ UNCHANGED <<temp_keys, result, failedAt>>
           ELSE \/ /\ file # Corrupt
                   /\ temp_keys' = [temp_keys EXCEPT ![p] = Some(file.keys)]
                   /\ pc' = [pc EXCEPT ![p] = NextStage("load")]
                   /\ UNCHANGED <<result, failedAt>>
                \/ /\ file = Corrupt
                   /\ Fail(p, "keys", LoadContext("parse"))
                   /\ UNCHANGED temp_keys
                \/ /\ Fail(p, "keys", LoadContext("io"))
                   /\ UNCHANGED temp_keys
    /\ UNCHANGED <<fsVars, cfg, ip_address, resolved, lookups, mkdirs,
                   keyFiles0, dirs0>>

\* TempKeys::load, the create branch: new keys are generated and written
\* to the path; a failed write leaves no file or a broken one.
TempKeysGenerate(p) ==
    /\ pc[p] = "generate"
    /\ LET path == cfg[p].temp_keys_path
       IN  \/ \E k \in Keys :
                /\ keyFiles' = [keyFiles EXCEPT ![path] = KeyFile(k)]
                /\ firstKeys' = [firstKeys EXCEPT ![path] =
                                   IF @ = None /\ keyFiles[path] = Missing
                                   THEN Some(k) ELSE @]
                /\ temp_keys' = [temp_keys EXCEPT ![p] = Some(k)]
                /\ pc' = [pc EXCEPT ![p] = NextStage("load")]
                /\ UNCHANGED <<result, failedAt>>
           \/ \E left \in {keyFiles[path], Corrupt} :
                /\ keyFiles' = [keyFiles EXCEPT ![path] = left]
                /\ Fail(p, "keys", LoadContext("io"))
                /\ UNCHANGED <<firstKeys, temp_keys>>
    /\ UNCHANGED <<dirs, cfg, ip_address, resolved, lookups, loads, mkdirs,
                   keyFiles0, dirs0>>

\* Prepare DB folder.
CreateDbDir(p) ==
    /\ pc[p] = "mkdir"
    /\ mkdirs' = [mkdirs EXCEPT ![p] = @ + 1]
    /\ \/ /\ dirs' = dirs \cup Ancestors(cfg[p].db_path)
          /\ pc' = [pc EXCEPT ![p] = NextStage("mkdir")]
          /\ UNCHANGED <<result, failedAt>>
       \/ \E made \in PartialAncestors(cfg[p].db_path) :
          /\ dirs' = dirs \cup made
          /\ Fail(p, "storage", DirError("io"))
    /\ UNCHANGED <<keyFiles, firstKeys, cfg, ip_address, temp_keys, resolved,
                   lookups, loads, keyFiles0, dirs0>>

\* Done.
Finish(p) ==
    /\ pc[p] = "build"
    /\ result' = [result EXCEPT ![p] =
                    Ok(BuildOutput(cfg[p], Unwrap(ip_address[p]),
                                   Unwrap(temp_keys[p])))]
    /\ pc' = [pc EXCEPT ![p] = "done"]
    /\ UNCHANGED <<fsVars, cfg, ip_address, temp_keys, resolved, failedAt,
                   lookups, loads, mkdirs, keyFiles0, dirs0>>

Next ==
    \E p \in SeqProcs :
        \/ StartSeq(p)
        \/ ResolveAddress(p)
        \/ TempKeysLoad(p)
        \/ TempKeysGenerate(p)
        \/ CreateDbDir(p)
        \/ Finish(p)
        \/ Exit(p)

Spec == Init /\ [][Next]_vars

NextConc ==
    \E p \in Procs :
        \/ StartConc(p)
        \/ ResolveAddress(p)
        \/ TempKeysLoad(p)
        \/ TempKeysGenerate(p)
        \/ CreateDbDir(p)
        \/ Finish(p)

SpecConc == Init /\ [][NextConc]_vars

\* ------------------------------------------------------------ properties
Ended(p) == pc[p] \in {"done", "failed"}
PastAddress(p) == pc[p] \in {"load", "generate", "mkdir", "build", "done"}

\* C1: when adnl_public_ip is absent and the resolver answers with no
\* address, the run has failed with ConfigError::PublicIpNotFound, neither
\* TempKeys::load nor create_dir_all was called, and the key files and the
\* directories are as they were when the run started.
C1_NoAddressFailsFast ==
    \A p \in Procs :
        (cfg[p].adnl_public_ip = None /\ resolved[p] = Answered(None)) =>
            /\ pc[p] = "failed"
            /\ result[p].tag = "Err"
            /\ result[p].error.cause = "ConfigError::PublicIpNotFound"
            /\ loads[p] = 0
            /\ mkdirs[p] = 0
            /\ keyFiles = keyFiles0[p]
            /\ dirs = dirs0[p]

\* A run without a configured address got no address from the resolver,
\* with no key file and no DB folder on disk yet.
C1_Witness ==
    \E p \in Procs :
        /\ cfg[p].adnl_public_ip = None
        /\ resolved[p] = Answered(None)
        /\ pc[p] = "failed"
        /\ keyFiles[cfg[p].temp_keys_path] = Missing
        /\ cfg[p].db_path \notin dirs

\* C2: the resolver is never asked when adnl_public_ip is present, and the
\* address used is then the configured one; it is asked exactly once when
\* adnl_public_ip is absent, and never a second time.
C2_ResolverCalls ==
    \A p \in Procs :
        /\ lookups[p] <= 1
        /\ (PastAddress(p) \/ pc[p] = "failed") =>
              lookups[p] = (IF cfg[p].adnl_public_ip = None THEN 1 ELSE 0)
        /\ (PastAddress(p) /\ cfg[p].adnl_public_ip # None) =>
              ip_address[p] = cfg[p].adnl_public_ip
        /\ (pc[p] = "done" /\ cfg[p].adnl_public_ip # None) =>
              result[p].value.ip_address.ip = cfg[p].adnl_public_ip[1]

\* A run with a configured address succeeded without asking the resolver.
C2_Witness ==
    \E p \in Procs :
        /\ pc[p] = "done"
        /\ cfg[p].adnl_public_ip # None
        /\ lookups[p] = 0

\* C3: in a successful run old_blocks_policy is Ignore exactly when
\* start_from is None, and Sync with from_seqno = n exactly when start_from
\* is Some(n); there is no other policy.
C3_OldBlocksPolicy ==
    \A p \in Procs :
        pc[p] = "done" =>
            LET policy == result[p].value.old_blocks_policy
                from == cfg[p].start_from
            IN  /\ policy.tag \in {"Ignore", "Sync"}
                /\ policy.tag = "Ignore" <=> from = None
                /\ policy.tag = "Sync" =>
                      policy = [tag |-> "Sync", from_seqno |-> from[1]]

\* A successful run that was told to sync from a seqno above zero.
C3_Witness ==
    \E p \in Procs :
        /\ pc[p] = "done"
        /\ cfg[p].start_from # None
        /\ cfg[p].start_from[1] > 0

\* C4: load-or-create is idempotent over one run after another: once a run
\* created the key file at a path that held none, the file keeps these keys,
\* and every later successful run on that path returns these keys and
\* leaves the file as it found it; a successful run leaves the returned
\* keys in the file.
C4_LoadOrCreateIdempotent ==
    /\ \A path \in KeyPaths :
          firstKeys[path] # None =>
              keyFiles[path] = [tag |-> "Keys", keys |-> firstKeys[path][1]]
    /\ \A p \in Procs :
          pc[p] = "done" =>
              LET path == cfg[p].temp_keys_path
                  got == result[p].value.adnl_keys.adnl_keys
              IN  /\ keyFiles[path] = [tag |-> "Keys", keys |-> got]
                  /\ firstKeys[path] # None => got = firstKeys[path][1]
                  /\ keyFiles0[p][path] # Missing =>
                        keyFiles[path] = keyFiles0[p][path]

\* A later successful run on a path whose key file an earlier run created.
C4_Witness ==
    \E p \in Procs :
        /\ pc[p] = "done"
        /\ loads[p] = 1
        /\ firstKeys[cfg[p].temp_keys_path] # None
        /\ keyFiles0[p][cfg[p].temp_keys_path] # Missing

\* C5: two runs at once on the same temp_keys_path, which held no file when
\* either started, end with the same keys, and these are the keys in the
\* file.
C5_NoLostUpdate ==
    \A p, q \in Procs :
        (/\ p # q
         /\ pc[p] = "done"
         /\ pc[q] = "done"
         /\ cfg[p].temp_keys_path = cfg[q].temp_keys_path
         /\ keyFiles0[p][cfg[p].temp_keys_path] = Missing
         /\ keyFiles0[q][cfg[q].temp_keys_path] = Missing) =>
            /\ result[p].value.adnl_keys = result[q].value.adnl_keys
            /\ keyFiles[cfg[p].temp_keys_path] =
                  [tag |-> "Keys", keys |-> result[p].value.adnl_keys.adnl_keys]

\* The stage an error names: the ConfigError variant, the context put on
\* the key store's error, or the bare io::Error of create_dir_all.
C6_StageOf(e) ==
    CASE e.context = << >> /\ e.cause = "ConfigError::PublicIpNotFound" -> "address"
      [] e.context = <<"Failed to load temp keys">> /\ e.cause \in {"io", "parse"} -> "keys"
      [] e.context = << >> /\ e.cause = "io" -> "storage"
      [] OTHER -> "unknown"

C7_StoragePaths ==
    \A p \in Procs :
        pc[p] = "done" =>
            /\ result[p].value.rocks_db_path = cfg[p].db_path \o <<"rocksdb">>
            /\ result[p].value.file_db_path = cfg[p].db_path \o <<"files">>
            /\ cfg[p].db_path \in dirs

\* A successful run that had to create a nested DB folder and its parent.
C7_Witness ==
    \E p \in Procs :
        /\ pc[p] = "done"
        /\ Len(cfg[p].db_path) = 2
        /\ dirs0[p] = {}

\* C8: within one run the resolver, TempKeys::load and create_dir_all are
\* each called at most once, whether the run succeeds or fails.
C8_SideEffectsAtMostOnce ==
    \A p \in Procs :
        /\ lookups[p] <= 1
        /\ loads[p] <= 1
        /\ mkdirs[p] <= 1

\* A run that ended after each of the three calls was made once.
C8_Witness ==
    \E p \in Procs :
        /\ Ended(p)
        /\ lookups[p] = 1
        /\ loads[p] = 1
        /\ mkdirs[p] = 1

\* C9: in a successful run state_gc_options and blocks_gc_options are None,
\* and max_db_memory_usage, parallel_archive_downloads and adnl_port are
\* those of the input.
C9_GcOffLimitsCopied ==
    \A p \in Procs :
        pc[p] = "done" =>
            /\ result[p].value.state_gc_options = << >>
            /\ result[p].value.blocks_gc_options = << >>
            /\ result[p].value.max_db_memory_usage = cfg[p].max_db_memory_usage
            /\ result[p].value.parallel_archive_downloads =
                  cfg[p].parallel_archive_downloads
            /\ result[p].value.ip_address.port = cfg[p].adnl_port

\* A successful run whose three limits all differ from the defaults.
C9_Witness ==
    \E p \in Procs :
        /\ pc[p] = "done"
        /\ cfg[p].adnl_port # 30303
        /\ cfg[p].parallel_archive_downloads # 16
        /\ cfg[p].max_db_memory_usage # DefaultNodeConfig.max_db_memory_usage

\* C10: the stages run in the order address, keys, DB folder: a run whose
\* key load failed has not called create_dir_all and left the directories
\* alone, create_dir_all is called only with keys at hand, and the key
\* store is called, and a key file written, only with an address at hand.
C10_StageOrder ==
    \A p \in Procs :
        /\ failedAt[p] = "keys" => mkdirs[p] = 0 /\ dirs = dirs0[p]
        /\ mkdirs[p] > 0 => temp_keys[p] # None /\ loads[p] = 1
        /\ (loads[p] > 0 \/ (pc[p] # "idle" /\ keyFiles # keyFiles0[p])) =>
              ip_address[p] # None
        /\ pc[p] = "resolve" => loads[p] = 0 /\ mkdirs[p] = 0

\* A run that failed at the DB folder and left behind the key file it had
\* just created.
C10_Witness ==
    \E p \in Procs :
        /\ pc[p] = "failed"
        /\ failedAt[p] = "storage"
        /\ keyFiles0[p][cfg[p].temp_keys_path] = Missing
        /\ keyFiles[cfg[p].temp_keys_path].tag = "Keys"

====
